---- MODULE Spec2Model ----
(***************************************************************************)
(* InvestWise: the schedule builder behind the SIP / lump-sum / SWP        *)
(* calculators and the export layer (utils/exportData.ts) that turns a     *)
(* year-record sequence into a comma-separated or tab-separated table.     *)
(*                                                                         *)
(* Amounts are integers (whole currency units); a division of the source   *)
(* is the integer division rounding down.                                  *)
(***************************************************************************)
EXTENDS Integers, Sequences, FiniteSets, TLC

\* ------------------------------------------------------------------ bounds

\* Longest tenure, in years, a scenario is built for.
MaxTenure == 2

\* Longest year-record sequence handed to the export layer.
MaxRows == 2

\* Most "copied" notifications pending or on screen at a time.
MaxNotifications == 1

\* ------------------------------------------------------------ input spaces

Regions == {"INR", "USD"}

\* The calculator pages the tab bar links to.
TabIds == {"sip-calculator", "swp-calculator"}

\* No call in progress; nothing returned yet.
NoCall == [fn |-> "none"]
Pending == [status |-> "pending", yearlyData |-> <<>>]

\* Values the SIP calculator's amount sliders take (a negative one is not
\* offered by the sliders, only by a direct caller).
MonthlyInvestments == {-1, 0, 1000}
LumpsumAmounts == {-1, 0, 50000}
ExpectedReturns == {-1, 0, 12}
Tenures == -1 .. MaxTenure
InflationRates == {-1, 0, 6}

\* Withdrawal scenarios: a corpus that is empty, one that runs out in the
\* first year, one that runs out in the second, and one that lasts.
InitialCorpora == {-1, 0, 5000, 15000, 100000}
MonthlyWithdrawals == {-1, 0, 1000}

\* ------------------------------------------------------------------- state

VARIABLES
    activeTab,           \* the calculator page that is shown
    region,              \* the region prop handed to the calculators
    sipCalculator,       \* the SIPCalculator component's state
    swpParams,           \* the withdrawal scenario's parameters
    call,                \* the Schedule Builder call in progress, or NoCall
    pc,                  \* "idle", "validate", "loop", "done", "failed"
    month,               \* months of the loop already applied
    balance,             \* running balance
    cumulativeCashFlow,  \* contributions / withdrawals made so far
    periodCashFlow,      \* ... made in the current 12-month block
    yearInterest,        \* compounding increments of the current block
    depletedAt,          \* month at which the balance clamped to 0, or 0
    records,             \* YearRecords emitted so far
    returned,            \* what the call returned: the sequence, or the failure
    yearlyData,          \* the year records the table shows and exports
    showMonthlyAmount,   \* the table has a monthly-amount column
    showInflation,       \* the table has an inflation-adjusted column
    downloaded,          \* the file the browser downloaded last
    opened,              \* the title of the spreadsheet window opened last
    clipboard,           \* the text on the clipboard
    pendingCopied,       \* clipboard writes whose then-callback has not run
    notifications,       \* "Data copied" notifications in the document
    regionEffectPending  \* the [region] effect is scheduled and has not run

buildVars == <<activeTab, region, sipCalculator, swpParams, call, pc, month, balance,
               cumulativeCashFlow, periodCashFlow, yearInterest, depletedAt,
               records, returned>>

exportVars == <<yearlyData, showMonthlyAmount, showInflation, downloaded,
                opened, clipboard, pendingCopied, notifications>>

formVars == <<regionEffectPending>>

vars == <<buildVars, exportVars, formVars>>

\* --------------------------------------------------- the SIP calculator form

\* A slip in the call: the return rate passed where the tenure belongs.
resultCallTenureSlip(s, r) ==
    IF s.investmentMode = "lumpsum"
    THEN [fn |-> "calculateLumpsum",
          params |-> [principalAmount |-> s.lumpsumAmount,
                      expectedReturn |-> s.expectedReturn,
                      tenure |-> s.expectedReturn,
                      region |-> r],
          inflationRate |-> s.inflationRate]
    ELSE [fn |-> "calculateSIP",
          params |-> [monthlyInvestment |-> s.monthlyInvestment,
                      expectedReturn |-> s.expectedReturn,
                      tenure |-> s.expectedReturn,
                      region |-> r],
          inflationRate |-> s.inflationRate]

\* A slip in the call: the inflation rate is not passed on.
resultCallNoInflation(s, r) ==
    IF s.investmentMode = "lumpsum"
    THEN [fn |-> "calculateLumpsum",
          params |-> [principalAmount |-> s.lumpsumAmount,
                      expectedReturn |-> s.expectedReturn,
                      tenure |-> s.tenure,
                      region |-> r],
          inflationRate |-> 0]
    ELSE [fn |-> "calculateSIP",
          params |-> [monthlyInvestment |-> s.monthlyInvestment,
                      expectedReturn |-> s.expectedReturn,
                      tenure |-> s.tenure,
                      region |-> r],
          inflationRate |-> 0]

\* A slip in the call: each mode is handed the other mode's amount.
resultCallAmountsSwapped(s, r) ==
    IF s.investmentMode = "lumpsum"
    THEN [fn |-> "calculateLumpsum",
          params |-> [principalAmount |-> s.monthlyInvestment,
                      expectedReturn |-> s.expectedReturn,
                      tenure |-> s.tenure,
                      region |-> r],
          inflationRate |-> s.inflationRate]
    ELSE [fn |-> "calculateSIP",
          params |-> [monthlyInvestment |-> s.lumpsumAmount,
                      expectedReturn |-> s.expectedReturn,
                      tenure |-> s.tenure,
                      region |-> r],
          inflationRate |-> s.inflationRate]

\* const result = useMemo(...): the engine call the form makes.
resultCall(s, r) ==
    IF s.investmentMode = "lumpsum"
    THEN [fn |-> "calculateLumpsum",
          params |-> [principalAmount |-> s.lumpsumAmount,
                      expectedReturn |-> s.expectedReturn,
                      tenure |-> s.tenure,
                      region |-> r],
          inflationRate |-> s.inflationRate]
    ELSE [fn |-> "calculateSIP",
          params |-> [monthlyInvestment |-> s.monthlyInvestment,
                      expectedReturn |-> s.expectedReturn,
                      tenure |-> s.tenure,
                      region |-> r],
          inflationRate |-> s.inflationRate]

\* The withdrawal calculator's engine call.
swpCall(p, r) ==
    [fn |-> "calculateSWP",
     params |-> [initialCorpus |-> p.initialCorpus,
                 monthlyWithdrawal |-> p.monthlyWithdrawal,
                 expectedReturn |-> p.expectedReturn,
                 tenure |-> p.tenure,
                 region |-> r],
     inflationRate |-> p.inflationRate]

\* --------------------------------------------------------- Schedule Builder

\* The mode-specific amounts of a call.
Amounts(c) ==
    CASE c.fn = "calculateSIP" -> {c.params.monthlyInvestment}
      [] c.fn = "calculateLumpsum" -> {c.params.principalAmount}
      [] c.fn = "calculateSWP" -> {c.params.initialCorpus, c.params.monthlyWithdrawal}

\* Negative amount, rate or tenure: the call is rejected before the loop.
InvalidParameter(c) ==
    \/ \E a \in Amounts(c) : a < 0
    \/ c.params.expectedReturn < 0
    \/ c.params.tenure < 0
    \/ c.inflationRate < 0

\* One month of compounding: balance * monthlyRate, monthlyRate = annual / 12 / 100.
MonthlyInterest(b, annualRate) == (b * annualRate) \div 1200

\* The balance the loop starts from.
InitialBalance(c) ==
    CASE c.fn = "calculateSIP" -> 0
      [] c.fn = "calculateLumpsum" -> c.params.principalAmount
      [] c.fn = "calculateSWP" -> c.params.initialCorpus

\* The cash flow counted before the first month (the one-time principal).
InitialCashFlow(c) ==
    IF c.fn = "calculateLumpsum" THEN c.params.principalAmount ELSE 0

\* valueAtYearEnd / (1 + inflationRate/100)^year, one year at a time.
RECURSIVE InflationAdjusted(_, _, _)
InflationAdjusted(value, inflationRate, year) ==
    IF year = 0 \/ inflationRate = 0 THEN value
    ELSE (InflationAdjusted(value, inflationRate, year - 1) * 100) \div (100 + inflationRate)

\* The YearRecord emitted at the close of a 12-month block.
YearRecord(c, year, flow, cumulative, value, interest) ==
    [year |-> year,
     periodCashFlow |-> flow,
     cumulativeCashFlow |-> cumulative,
     valueAtYearEnd |-> value,
     totalGainOrInterest |-> IF c.fn = "calculateSWP" THEN interest ELSE value - cumulative,
     inflationAdjustedValue |-> InflationAdjusted(value, c.inflationRate, year)]

\* The state of a calculator that is not the one shown.
NotMounted ==
    [investmentMode |-> "sip", monthlyInvestment |-> 0, lumpsumAmount |-> 0,
     expectedReturn |-> 0, tenure |-> 0, inflationRate |-> 0]

NotShown ==
    [initialCorpus |-> 0, monthlyWithdrawal |-> 0, expectedReturn |-> 0,
     tenure |-> 0, inflationRate |-> 0]

\* No file downloaded yet.
NoFile == [content |-> <<>>, filename |-> <<>>, mimeType |-> ""]

\* The export layer before any export.
NothingExported ==
    /\ downloaded = NoFile /\ opened = <<>> /\ clipboard = <<>>
    /\ pendingCopied = <<>> /\ notifications = 0

Idle ==
    /\ call = NoCall /\ pc = "idle" /\ month = 0 /\ balance = 0
    /\ cumulativeCashFlow = 0 /\ periodCashFlow = 0 /\ yearInterest = 0
    /\ depletedAt = 0 /\ records = <<>> /\ returned = Pending

\* A growth scenario: the SIP calculator is mounted with some slider values.
InitGrowth ==
    /\ activeTab = "sip-calculator"
    /\ region \in Regions
    /\ sipCalculator \in [investmentMode : {"sip", "lumpsum"},
                          monthlyInvestment : MonthlyInvestments,
                          lumpsumAmount : LumpsumAmounts,
                          expectedReturn : ExpectedReturns,
                          tenure : Tenures,
                          inflationRate : InflationRates]
    /\ swpParams = NotShown
    /\ Idle
    /\ yearlyData = <<>> /\ showMonthlyAmount = FALSE /\ showInflation = FALSE
    /\ NothingExported
    /\ regionEffectPending = FALSE

\* A withdrawal scenario.
InitWithdrawal ==
    /\ activeTab = "swp-calculator"
    /\ region \in Regions
    /\ sipCalculator = NotMounted
    /\ swpParams \in [initialCorpus : InitialCorpora,
                      monthlyWithdrawal : MonthlyWithdrawals,
                      expectedReturn : ExpectedReturns,
                      tenure : Tenures,
                      inflationRate : InflationRates]
    /\ Idle
    /\ yearlyData = <<>> /\ showMonthlyAmount = FALSE /\ showInflation = FALSE
    /\ NothingExported
    /\ regionEffectPending = FALSE

Init == InitGrowth \/ InitWithdrawal

\* The SIP calculator renders: useMemo calls calculateSIP or calculateLumpsum.
result ==
    /\ pc = "idle"
    /\ activeTab = "sip-calculator"
    /\ call' = resultCall(sipCalculator, region)
    /\ pc' = "validate"
    /\ UNCHANGED <<exportVars, formVars>>
    /\ UNCHANGED <<activeTab, region, sipCalculator, swpParams, month, balance, cumulativeCashFlow,
                   periodCashFlow, yearInterest, depletedAt, records, returned>>

\* The withdrawal calculator calls the builder in withdrawal mode.
calculateSWP ==
    /\ pc = "idle"
    /\ activeTab = "swp-calculator"
    /\ call' = swpCall(swpParams, region)
    /\ pc' = "validate"
    /\ UNCHANGED <<exportVars, formVars>>
    /\ UNCHANGED <<activeTab, region, sipCalculator, swpParams, month, balance, cumulativeCashFlow,
                   periodCashFlow, yearInterest, depletedAt, records, returned>>

\* Negative input is rejected before the loop starts.
Reject ==
    /\ pc = "validate"
    /\ InvalidParameter(call)
    /\ pc' = "failed"
    /\ returned' = [status |-> "InvalidParameter", yearlyData |-> <<>>]
    /\ UNCHANGED <<exportVars, formVars>>
    /\ UNCHANGED <<activeTab, region, sipCalculator, swpParams, call, month, balance,
                   cumulativeCashFlow, periodCashFlow, yearInterest, depletedAt,
                   records>>

\* Valid input: the loop starts from the initial balance.
Start ==
    /\ pc = "validate"
    /\ ~InvalidParameter(call)
    /\ pc' = "loop"
    /\ balance' = InitialBalance(call)
    /\ cumulativeCashFlow' = InitialCashFlow(call)
    /\ periodCashFlow' = InitialCashFlow(call)
    /\ UNCHANGED <<exportVars, formVars>>
    /\ UNCHANGED <<activeTab, region, sipCalculator, swpParams, call, month, yearInterest,
                   depletedAt, records, returned>>

\* A builder that lets the withdrawal take the balance below zero.
BalanceAfterMonthNoClamp(c, b) ==
    LET grown == b + MonthlyInterest(b, c.params.expectedReturn) IN
    CASE c.fn = "calculateSIP" -> grown + c.params.monthlyInvestment
      [] c.fn = "calculateLumpsum" -> grown
      [] c.fn = "calculateSWP" -> grown - c.params.monthlyWithdrawal

\* The balance after one month: compounding first, then the cash flow; a
\* withdrawal that would make the balance negative clamps it to 0.
BalanceAfterMonth(c, b) ==
    LET grown == b + MonthlyInterest(b, c.params.expectedReturn) IN
    CASE c.fn = "calculateSIP" -> grown + c.params.monthlyInvestment
      [] c.fn = "calculateLumpsum" -> grown
      [] c.fn = "calculateSWP" ->
            IF grown - c.params.monthlyWithdrawal < 0 THEN 0
            ELSE grown - c.params.monthlyWithdrawal

\* A builder that keeps counting withdrawals after the corpus is exhausted.
CashFlowOfMonthNoFreeze(c, b, depleted) ==
    CASE c.fn = "calculateSIP" -> c.params.monthlyInvestment
      [] c.fn = "calculateLumpsum" -> 0
      [] c.fn = "calculateSWP" -> c.params.monthlyWithdrawal

\* The cash flow made in one month; nothing is withdrawn once the corpus is
\* exhausted, and the depletion month withdraws what is left.
CashFlowOfMonth(c, b, depleted) ==
    LET grown == b + MonthlyInterest(b, c.params.expectedReturn) IN
    CASE c.fn = "calculateSIP" -> c.params.monthlyInvestment
      [] c.fn = "calculateLumpsum" -> 0
      [] c.fn = "calculateSWP" ->
            IF depleted THEN 0
            ELSE IF grown - c.params.monthlyWithdrawal < 0 THEN grown
            ELSE c.params.monthlyWithdrawal

\* The withdrawal of this month clamps the balance to 0.
Clamps(c, b) ==
    /\ c.fn = "calculateSWP"
    /\ b + MonthlyInterest(b, c.params.expectedReturn) - c.params.monthlyWithdrawal < 0

\* One iteration of the monthly loop; the close of a 12-month block emits a record.
MonthStep ==
    /\ pc = "loop"
    /\ month < call.params.tenure * 12
    /\ LET interest == MonthlyInterest(balance, call.params.expectedReturn)
           flow == CashFlowOfMonth(call, balance, depletedAt # 0)
           newBalance == BalanceAfterMonth(call, balance)
           yearEnd == (month + 1) % 12 = 0
       IN /\ month' = month + 1
          /\ balance' = newBalance
          /\ cumulativeCashFlow' = cumulativeCashFlow + flow
          /\ depletedAt' = IF depletedAt = 0 /\ Clamps(call, balance)
                           THEN month + 1 ELSE depletedAt
          /\ IF yearEnd
             THEN /\ records' = Append(records,
                        YearRecord(call, (month + 1) \div 12, periodCashFlow + flow,
                                   cumulativeCashFlow + flow, newBalance,
                                   yearInterest + interest))
                  /\ periodCashFlow' = 0
                  /\ yearInterest' = 0
             ELSE /\ records' = records
                  /\ periodCashFlow' = periodCashFlow + flow
                  /\ yearInterest' = yearInterest + interest
    /\ UNCHANGED <<exportVars, formVars>>
    /\ UNCHANGED <<activeTab, region, sipCalculator, swpParams, call, pc, returned>>

\* The loop is over: the full sequence is returned.
Return ==
    /\ pc = "loop"
    /\ month = call.params.tenure * 12
    /\ pc' = "done"
    /\ returned' = [status |-> "ok", yearlyData |-> records]
    /\ UNCHANGED <<exportVars, formVars>>
    /\ UNCHANGED <<activeTab, region, sipCalculator, swpParams, call, month, balance,
                   cumulativeCashFlow, periodCashFlow, yearInterest, depletedAt,
                   records>>

Next ==
    \/ result
    \/ calculateSWP
    \/ Reject
    \/ Start
    \/ MonthStep
    \/ Return

Spec == Init /\ [][Next]_vars

\* ------------------------------------------------------------- export layer
\* A text is a sequence of tokens.  The characters the two serializations give
\* a meaning to (the comma, the tab, the line feed, the double quote) are
\* always tokens of their own, as are the digits, the sign and the grouping
\* commas of an amount; a literal of the source that contains none of them
\* ('Year', 'Total', ".csv") is one token.

Comma == ","
Tab == "\t"
LineFeed == "\n"
Quote == "\""
Space == " "

\* An optional numeric field: <<>> when undefined, <<v>> when set to v.
Undefined == <<>>
Some(v) == <<v>>

\* a || b on an optional number: undefined and 0 are falsy.
OrElse(a, b) == IF a = Undefined \/ a[1] = 0 THEN b ELSE a[1]

\* parts.join(sep)
RECURSIVE join(_, _)
join(parts, sep) ==
    IF parts = <<>> THEN <<>>
    ELSE IF Len(parts) = 1 THEN parts[1]
    ELSE parts[1] \o <<sep>> \o join(Tail(parts), sep)

\* The decimal digits of a natural number: n.toString().
DigitChar(d) == <<"0", "1", "2", "3", "4", "5", "6", "7", "8", "9">>[d + 1]

RECURSIVE toString(_)
toString(n) ==
    IF n < 10 THEN <<DigitChar(n)>>
    ELSE toString(n \div 10) \o <<DigitChar(n % 10)>>

\* Digits in groups of `size` from the right, separated by commas.
RECURSIVE GroupDigits(_, _)
GroupDigits(digits, size) ==
    IF Len(digits) <= size THEN digits
    ELSE GroupDigits(SubSeq(digits, 1, Len(digits) - size), size)
            \o <<Comma>> \o SubSeq(digits, Len(digits) - size + 1, Len(digits))

\* The digit grouping of the region's locale: thousands, then lakh and crore
\* (pairs) for INR; thousands throughout otherwise.
LocaleDigits(n, r) ==
    LET digits == toString(n) IN
    IF r = "INR" /\ Len(digits) > 3
    THEN GroupDigits(SubSeq(digits, 1, Len(digits) - 3), 2)
            \o <<Comma>> \o SubSeq(digits, Len(digits) - 2, Len(digits))
    ELSE GroupDigits(digits, 3)

\* const currencySymbol = region === 'INR' ? rupee sign : '$'
currencySymbol(r) == IF r = "INR" THEN "Rs" ELSE "$"

\* formatCurrency(amount, region): the locale currency string of an amount.
formatCurrency(amount, r) ==
    IF amount < 0
    THEN <<"-", currencySymbol(r)>> \o LocaleDigits(0 - amount, r)
    ELSE <<currencySymbol(r)>> \o LocaleDigits(amount, r)

\* row => `"${cell}"` of toCSV.
QuotedCells(row) == [i \in 1 .. Len(row) |-> <<Quote>> \o row[i] \o <<Quote>>]

\* A toCSV that writes the cells as they are.
toCSVUnquoted(headers, rows) ==
    join(<<join(headers, Comma)>>
            \o [i \in 1 .. Len(rows) |-> join(rows[i], Comma)],
         LineFeed)

\* toCSV(headers, rows)
toCSV(headers, rows) ==
    join(<<join(headers, Comma)>>
            \o [i \in 1 .. Len(rows) |-> join(QuotedCells(rows[i]), Comma)],
         LineFeed)

\* cell.replace(/\t/g, ' ')
ReplaceTabs(cell) == [i \in 1 .. Len(cell) |-> IF cell[i] = Tab THEN Space ELSE cell[i]]

\* A tsvContent that leaves out the rows after the first data row.
tsvContentFirstRowOnly(headers, rows) ==
    join(<<join(headers, Tab)>>
            \o [i \in 1 .. (IF Len(rows) > 1 THEN 1 ELSE Len(rows)) |->
                    join([j \in 1 .. Len(rows[i]) |-> ReplaceTabs(rows[i][j])], Tab)],
         LineFeed)

\* const tsvContent = ... of openInGoogleSheets
tsvContent(headers, rows) ==
    join(<<join(headers, Tab)>>
            \o [i \in 1 .. Len(rows) |->
                    join([j \in 1 .. Len(rows[i]) |-> ReplaceTabs(rows[i][j])], Tab)],
         LineFeed)

\* A spread that adds the cell whatever the flag.
WhenAlways(flag, cell) == <<cell>>

\* ...(flag ? [cell] : [])
When(flag, cell) == IF flag THEN <<cell>> ELSE <<>>

\* data.reduce((sum, row) => sum + row.interestEarned, 0)
RECURSIVE totalInterest(_)
totalInterest(data) ==
    IF data = <<>> THEN 0
    ELSE totalInterest(SubSeq(data, 1, Len(data) - 1)) + data[Len(data)].interestEarned

\* An exportSIPData whose summary row is taken from the first record.
SIPDataTableFirstRecord(data, r, monthly, inflation) ==
    [headers |->
        <<<<"Year">>>> \o When(monthly, <<"Monthly SIP">>)
            \o <<<<"Annual Investment">>, <<"Cumulative Investment">>,
                 <<"Value at Year-End">>, <<"Total Returns">>>>
            \o When(inflation, <<"Inflation Adjusted Value">>),
     rows |->
        [i \in 1 .. Len(data) |->
            <<toString(data[i].year)>>
                \o When(monthly, formatCurrency(OrElse(data[i].monthlyAmount, 0), r))
                \o <<formatCurrency(data[i].annualInvestment, r),
                     formatCurrency(data[i].cumulativeInvestment, r),
                     formatCurrency(data[i].valueAtYearEnd, r),
                     formatCurrency(data[i].totalReturns, r)>>
                \o When(inflation,
                        formatCurrency(OrElse(data[i].inflationAdjustedValue,
                                              data[i].valueAtYearEnd), r))]
        \o (IF Len(data) > 0
            THEN LET lastRow == data[1] IN
                 << <<<<"Total">>>> \o When(monthly, <<"-">>)
                    \o <<<<"-">>,
                         formatCurrency(lastRow.cumulativeInvestment, r),
                         formatCurrency(lastRow.valueAtYearEnd, r),
                         formatCurrency(lastRow.totalReturns, r)>>
                    \o When(inflation,
                            formatCurrency(OrElse(lastRow.inflationAdjustedValue,
                                                  lastRow.valueAtYearEnd), r)) >>
            ELSE <<>>)]

\* headers and rows of exportSIPData
SIPDataTable(data, r, monthly, inflation) ==
    [headers |->
        <<<<"Year">>>> \o When(monthly, <<"Monthly SIP">>)
            \o <<<<"Annual Investment">>, <<"Cumulative Investment">>,
                 <<"Value at Year-End">>, <<"Total Returns">>>>
            \o When(inflation, <<"Inflation Adjusted Value">>),
     rows |->
        [i \in 1 .. Len(data) |->
            <<toString(data[i].year)>>
                \o When(monthly, formatCurrency(OrElse(data[i].monthlyAmount, 0), r))
                \o <<formatCurrency(data[i].annualInvestment, r),
                     formatCurrency(data[i].cumulativeInvestment, r),
                     formatCurrency(data[i].valueAtYearEnd, r),
                     formatCurrency(data[i].totalReturns, r)>>
                \o When(inflation,
                        formatCurrency(OrElse(data[i].inflationAdjustedValue,
                                              data[i].valueAtYearEnd), r))]
        \o (IF Len(data) > 0
            THEN LET lastRow == data[Len(data)] IN
                 << <<<<"Total">>>> \o When(monthly, <<"-">>)
                    \o <<<<"-">>,
                         formatCurrency(lastRow.cumulativeInvestment, r),
                         formatCurrency(lastRow.valueAtYearEnd, r),
                         formatCurrency(lastRow.totalReturns, r)>>
                    \o When(inflation,
                            formatCurrency(OrElse(lastRow.inflationAdjustedValue,
                                                  lastRow.valueAtYearEnd), r)) >>
            ELSE <<>>)]

\* headers and rows of exportSIPToGoogleSheets
SIPSheetsTable(data, r, monthly, inflation) ==
    [headers |->
        <<<<"Year">>>> \o When(monthly, <<"Monthly SIP">>)
            \o <<<<"Annual Investment">>, <<"Cumulative Investment">>,
                 <<"Value at Year-End">>, <<"Total Returns">>>>
            \o When(inflation, <<"Inflation Adjusted Value">>),
     rows |->
        [i \in 1 .. Len(data) |->
            <<toString(data[i].year)>>
                \o When(monthly, formatCurrency(OrElse(data[i].monthlyAmount, 0), r))
                \o <<formatCurrency(data[i].annualInvestment, r),
                     formatCurrency(data[i].cumulativeInvestment, r),
                     formatCurrency(data[i].valueAtYearEnd, r),
                     formatCurrency(data[i].totalReturns, r)>>
                \o When(inflation,
                        formatCurrency(OrElse(data[i].inflationAdjustedValue,
                                              data[i].valueAtYearEnd), r))]
        \o (IF Len(data) > 0
            THEN LET lastRow == data[Len(data)] IN
                 << <<<<"Total">>>> \o When(monthly, <<"-">>)
                    \o <<<<"-">>,
                         formatCurrency(lastRow.cumulativeInvestment, r),
                         formatCurrency(lastRow.valueAtYearEnd, r),
                         formatCurrency(lastRow.totalReturns, r)>>
                    \o When(inflation,
                            formatCurrency(OrElse(lastRow.inflationAdjustedValue,
                                                  lastRow.valueAtYearEnd), r)) >>
            ELSE <<>>)]

\* headers and rows of exportSWPData
SWPDataTable(data, r, inflation) ==
    [headers |->
        <<<<"Year">>, <<"Annual Withdrawal">>, <<"Cumulative Withdrawal">>,
          <<"Corpus at Year-End">>, <<"Interest Earned">>>>
            \o When(inflation, <<"Corpus (Today's Value)">>),
     rows |->
        [i \in 1 .. Len(data) |->
            <<toString(data[i].year),
              formatCurrency(data[i].annualWithdrawal, r),
              formatCurrency(data[i].cumulativeWithdrawal, r),
              formatCurrency(data[i].corpusAtYearEnd, r),
              formatCurrency(data[i].interestEarned, r)>>
                \o When(inflation,
                        formatCurrency(OrElse(data[i].inflationAdjustedCorpus,
                                              data[i].corpusAtYearEnd), r))]
        \o (IF Len(data) > 0
            THEN LET lastRow == data[Len(data)] IN
                 << <<<<"Total">>, <<"-">>,
                      formatCurrency(lastRow.cumulativeWithdrawal, r),
                      formatCurrency(lastRow.corpusAtYearEnd, r),
                      formatCurrency(totalInterest(data), r)>>
                    \o When(inflation,
                            formatCurrency(OrElse(lastRow.inflationAdjustedCorpus,
                                                  lastRow.corpusAtYearEnd), r)) >>
            ELSE <<>>)]

\* headers and rows of exportSWPToGoogleSheets
SWPSheetsTable(data, r, inflation) ==
    [headers |->
        <<<<"Year">>, <<"Annual Withdrawal">>, <<"Cumulative Withdrawal">>,
          <<"Corpus at Year-End">>, <<"Interest Earned">>>>
            \o When(inflation, <<"Corpus (Today's Value)">>),
     rows |->
        [i \in 1 .. Len(data) |->
            <<toString(data[i].year),
              formatCurrency(data[i].annualWithdrawal, r),
              formatCurrency(data[i].cumulativeWithdrawal, r),
              formatCurrency(data[i].corpusAtYearEnd, r),
              formatCurrency(data[i].interestEarned, r)>>
                \o When(inflation,
                        formatCurrency(OrElse(data[i].inflationAdjustedCorpus,
                                              data[i].corpusAtYearEnd), r))]
        \o (IF Len(data) > 0
            THEN LET lastRow == data[Len(data)] IN
                 << <<<<"Total">>, <<"-">>,
                      formatCurrency(lastRow.cumulativeWithdrawal, r),
                      formatCurrency(lastRow.corpusAtYearEnd, r),
                      formatCurrency(totalInterest(data), r)>>
                    \o When(inflation,
                            formatCurrency(OrElse(lastRow.inflationAdjustedCorpus,
                                                  lastRow.corpusAtYearEnd), r)) >>
            ELSE <<>>)]

\* new Date().toISOString().split('T')[0]: the day of the export.
Dates == {"2025-03-09"}

\* encodeURIComponent(title): the titles hold letters, digits, '-' and spaces.
encodeURIComponent(text) ==
    [i \in 1 .. Len(text) |-> IF text[i] = Space THEN "%20" ELSE text[i]]

\* The optional-field shapes a year record can have: the adjusted value
\* undefined, 0 or positive beside a positive value, and a record of value 0.
ValueShapes ==
    {[value |-> 1234567, adjusted |-> Undefined],
     [value |-> 1234567, adjusted |-> Some(0)],
     [value |-> 1234567, adjusted |-> Some(987654)],
     [value |-> 0, adjusted |-> Some(0)]}

MonthlyAmounts == {Undefined, Some(1500)}

\* A YearlyData record of year i.
YearlyDataOf(i, shape, monthlyAmount) ==
    [year |-> i,
     monthlyAmount |-> monthlyAmount,
     annualInvestment |-> 18000,
     cumulativeInvestment |-> 18000 * i,
     valueAtYearEnd |-> shape.value * i,
     totalReturns |-> shape.value * i - 18000 * i,
     inflationAdjustedValue |-> shape.adjusted]

\* A SWPYearlyData record of year i.
SWPYearlyDataOf(i, shape) ==
    [year |-> i,
     annualWithdrawal |-> 12000,
     cumulativeWithdrawal |-> 12000 * i,
     corpusAtYearEnd |-> shape.value * i,
     interestEarned |-> 700 * i,
     inflationAdjustedCorpus |-> shape.adjusted]

\* Sequences of YearlyData: every record of a sequence carries a monthly
\* amount, or none does.
YearlyDataSequences ==
    UNION {{[i \in 1 .. n |-> YearlyDataOf(i, f[i], monthlyAmount)] :
                f \in [1 .. n -> ValueShapes], monthlyAmount \in MonthlyAmounts} :
           n \in 0 .. MaxRows}

SWPYearlyDataSequences ==
    UNION {{[i \in 1 .. n |-> SWPYearlyDataOf(i, f[i])] : f \in [1 .. n -> ValueShapes]} :
           n \in 0 .. MaxRows}

\* The SIP table is shown with some year records and column flags.
InitExportSIP ==
    /\ activeTab = "sip-calculator"
    /\ yearlyData \in YearlyDataSequences
    /\ showMonthlyAmount \in BOOLEAN

\* The SWP table is shown; it has no monthly-amount column.
InitExportSWP ==
    /\ activeTab = "swp-calculator"
    /\ yearlyData \in SWPYearlyDataSequences
    /\ showMonthlyAmount = FALSE

InitExport ==
    /\ InitExportSIP \/ InitExportSWP
    /\ region \in Regions
    /\ showInflation \in BOOLEAN
    /\ sipCalculator = NotMounted /\ swpParams = NotShown
    /\ Idle
    /\ NothingExported
    /\ regionEffectPending = FALSE

UnchangedByExport ==
    UNCHANGED <<activeTab, region, sipCalculator, swpParams, call, pc, month,
                balance, cumulativeCashFlow, periodCashFlow, yearInterest,
                depletedAt, records, returned, yearlyData, showMonthlyAmount,
                showInflation, regionEffectPending>>

\* downloadFile(content, filename, mimeType)
downloadFile(content, filename, mimeType) ==
    downloaded' = [content |-> content, filename |-> filename, mimeType |-> mimeType]

\* openInGoogleSheets(headers, rows, title)
openInGoogleSheets(headers, rows, title) ==
    /\ opened' = <<"https://docs.google.com/spreadsheets/create?title=">>
                    \o encodeURIComponent(title)
    /\ pendingCopied' = Append(pendingCopied, tsvContent(headers, rows))

\* exportSIPData(data, region, format, showMonthlyAmount, showInflation)
exportSIPData ==
    /\ activeTab = "sip-calculator"
    /\ \E format \in {"csv", "excel"}, date \in Dates :
        LET table == SIPDataTable(yearlyData, region, showMonthlyAmount, showInflation)
            csvContent == toCSV(table.headers, table.rows)
        IN IF format = "csv"
           THEN downloadFile(csvContent, <<"sip-breakdown-", date, ".csv">>,
                             "text/csv;charset=utf-8;")
           ELSE downloadFile(csvContent, <<"sip-breakdown-", date, ".xls">>,
                             "application/vnd.ms-excel;charset=utf-8;")
    /\ UNCHANGED <<opened, clipboard, pendingCopied, notifications>>
    /\ UnchangedByExport

\* exportSIPToGoogleSheets(data, region, showMonthlyAmount, showInflation)
exportSIPToGoogleSheets ==
    /\ activeTab = "sip-calculator"
    /\ Len(pendingCopied) + notifications < MaxNotifications
    /\ \E date \in Dates :
        LET table == SIPSheetsTable(yearlyData, region, showMonthlyAmount, showInflation)
        IN openInGoogleSheets(table.headers, table.rows,
                              <<"SIP", Space, "Breakdown", Space, "-", Space, date>>)
    /\ UNCHANGED <<downloaded, clipboard, notifications>>
    /\ UnchangedByExport

\* exportSWPData(data, region, format, showInflation)
exportSWPData ==
    /\ activeTab = "swp-calculator"
    /\ \E format \in {"csv", "excel"}, date \in Dates :
        LET table == SWPDataTable(yearlyData, region, showInflation)
            csvContent == toCSV(table.headers, table.rows)
        IN IF format = "csv"
           THEN downloadFile(csvContent, <<"swp-breakdown-", date, ".csv">>,
                             "text/csv;charset=utf-8;")
           ELSE downloadFile(csvContent, <<"swp-breakdown-", date, ".xls">>,
                             "application/vnd.ms-excel;charset=utf-8;")
    /\ UNCHANGED <<opened, clipboard, pendingCopied, notifications>>
    /\ UnchangedByExport

\* exportSWPToGoogleSheets(data, region, showInflation)
exportSWPToGoogleSheets ==
    /\ activeTab = "swp-calculator"
    /\ Len(pendingCopied) + notifications < MaxNotifications
    /\ \E date \in Dates :
        LET table == SWPSheetsTable(yearlyData, region, showInflation)
        IN openInGoogleSheets(table.headers, table.rows,
                              <<"SWP", Space, "Breakdown", Space, "-", Space, date>>)
    /\ UNCHANGED <<downloaded, clipboard, notifications>>
    /\ UnchangedByExport

\* navigator.clipboard.writeText(tsvContent) resolves: the text is on the
\* clipboard and the then-callback adds the notification.
writeTextResolved ==
    /\ pendingCopied # <<>>
    /\ clipboard' = Head(pendingCopied)
    /\ pendingCopied' = Tail(pendingCopied)
    /\ notifications' = notifications + 1
    /\ UNCHANGED <<downloaded, opened>>
    /\ UnchangedByExport

\* The write is refused (no clipboard permission): nothing is copied or shown.
writeTextRejected ==
    /\ pendingCopied # <<>>
    /\ pendingCopied' = Tail(pendingCopied)
    /\ UNCHANGED <<downloaded, opened, clipboard, notifications>>
    /\ UnchangedByExport

\* setTimeout(() => notification.remove(), 5000)
notificationRemoved ==
    /\ notifications > 0
    /\ notifications' = notifications - 1
    /\ UNCHANGED <<downloaded, opened, clipboard, pendingCopied>>
    /\ UnchangedByExport

NextExport ==
    \/ exportSIPData
    \/ exportSIPToGoogleSheets
    \/ exportSWPData
    \/ exportSWPToGoogleSheets
    \/ writeTextResolved
    \/ writeTextRejected
    \/ notificationRemoved

SpecExport == InitExport /\ [][NextExport]_vars

\* ------------------------------------------------------ the calculator form
\* The SIPCalculator component as the user drives it: the sliders, the mode
\* toggle, Reset, and the region prop changed by the page.  Every state change
\* renders, and the render's useMemo makes the engine call, kept in `call`;
\* the schedule a call returns is the subject of Spec.

\* DEFAULT_VALUES of utils/constants.
DEFAULT_VALUES ==
    [monthlyInvestment |-> [INR |-> 5000, USD |-> 500],
     lumpsumAmount |-> [INR |-> 100000, USD |-> 10000],
     expectedReturn |-> 12,
     tenure |-> 10,
     inflationRate |-> [INR |-> 6, USD |-> 3]]

\* Positions of the sliders (INPUT_RANGES of utils/constants), beside the defaults.
SliderMonthlyInvestments == {1000, 5000}
SliderLumpsumAmounts == {10000, 50000}
SliderExpectedReturns == {8, 12}
SliderTenures == {5, 10}
SliderInflationRates == {3, 4}

\* useState(...): the state the component mounts with.
MountedState(r) ==
    [investmentMode |-> "sip",
     monthlyInvestment |-> DEFAULT_VALUES.monthlyInvestment[r],
     lumpsumAmount |-> DEFAULT_VALUES.lumpsumAmount[r],
     expectedReturn |-> DEFAULT_VALUES.expectedReturn,
     tenure |-> DEFAULT_VALUES.tenure,
     inflationRate |-> DEFAULT_VALUES.inflationRate[r]]

\* An effect that resets every parameter, as Reset does.
regionDefaultsResetAll(s, r) ==
    [s EXCEPT !.monthlyInvestment = DEFAULT_VALUES.monthlyInvestment[r],
              !.lumpsumAmount = DEFAULT_VALUES.lumpsumAmount[r],
              !.expectedReturn = DEFAULT_VALUES.expectedReturn,
              !.tenure = DEFAULT_VALUES.tenure,
              !.inflationRate = DEFAULT_VALUES.inflationRate[r]]

\* The three setters of the [region] effect.
regionDefaults(s, r) ==
    [s EXCEPT !.monthlyInvestment = DEFAULT_VALUES.monthlyInvestment[r],
              !.lumpsumAmount = DEFAULT_VALUES.lumpsumAmount[r],
              !.inflationRate = DEFAULT_VALUES.inflationRate[r]]

\* The five setters of handleReset.
resetValues(s, r) ==
    [s EXCEPT !.monthlyInvestment = DEFAULT_VALUES.monthlyInvestment[r],
              !.lumpsumAmount = DEFAULT_VALUES.lumpsumAmount[r],
              !.expectedReturn = DEFAULT_VALUES.expectedReturn,
              !.tenure = DEFAULT_VALUES.tenure,
              !.inflationRate = DEFAULT_VALUES.inflationRate[r]]

\* The component mounts in the page's first region; its effect is scheduled.
InitForm ==
    /\ activeTab = "sip-calculator"
    /\ region = "INR"
    /\ showInflation \in BOOLEAN
    /\ sipCalculator = MountedState(region)
    /\ swpParams = NotShown
    /\ call = resultCall(sipCalculator, region)
    /\ pc = "idle" /\ month = 0 /\ balance = 0
    /\ cumulativeCashFlow = 0 /\ periodCashFlow = 0 /\ yearInterest = 0
    /\ depletedAt = 0 /\ records = <<>> /\ returned = Pending
    /\ yearlyData = <<>> /\ showMonthlyAmount = FALSE
    /\ downloaded = NoFile /\ opened = <<>> /\ clipboard = <<>>
    /\ pendingCopied = <<>> /\ notifications = 0
    /\ regionEffectPending = TRUE

UnchangedByForm ==
    UNCHANGED <<activeTab, swpParams, pc, month, balance, cumulativeCashFlow,
                periodCashFlow, yearInterest, depletedAt, records, returned,
                exportVars>>

\* A state update and the render it causes: useMemo calls the engine with the
\* new state.
Rendered(newState) ==
    /\ sipCalculator' = newState
    /\ call' = resultCall(newState, region)
    /\ UNCHANGED <<region, regionEffectPending>>
    /\ UnchangedByForm

\* onClick={() => setInvestmentMode('sip' | 'lumpsum')}
setInvestmentMode ==
    /\ ~regionEffectPending
    /\ \E mode \in {"sip", "lumpsum"} :
          Rendered([sipCalculator EXCEPT !.investmentMode = mode])

\* The "Monthly Investment" slider, shown in SIP mode.
setMonthlyInvestment ==
    /\ ~regionEffectPending
    /\ sipCalculator.investmentMode = "sip"
    /\ \E v \in SliderMonthlyInvestments :
          Rendered([sipCalculator EXCEPT !.monthlyInvestment = v])

\* The "One-time Investment" slider, shown in lump-sum mode.
setLumpsumAmount ==
    /\ ~regionEffectPending
    /\ sipCalculator.investmentMode # "sip"
    /\ \E v \in SliderLumpsumAmounts :
          Rendered([sipCalculator EXCEPT !.lumpsumAmount = v])

\* The "Expected Return Rate" slider.
setExpectedReturn ==
    /\ ~regionEffectPending
    /\ \E v \in SliderExpectedReturns :
          Rendered([sipCalculator EXCEPT !.expectedReturn = v])

\* The "Investment Tenure" slider.
setTenure ==
    /\ ~regionEffectPending
    /\ \E v \in SliderTenures :
          Rendered([sipCalculator EXCEPT !.tenure = v])

\* The "Expected Inflation Rate" slider, shown with showInflation.
setInflationRate ==
    /\ ~regionEffectPending
    /\ showInflation
    /\ \E v \in SliderInflationRates :
          Rendered([sipCalculator EXCEPT !.inflationRate = v])

\* const handleReset = useCallback(...)
handleReset ==
    /\ ~regionEffectPending
    /\ Rendered(resetValues(sipCalculator, region))

\* The page hands the component another region: it renders with the new
\* region and the state it has, and the [region] effect is scheduled.
regionChanged ==
    /\ ~regionEffectPending
    /\ \E r \in Regions \ {region} :
          /\ region' = r
          /\ call' = resultCall(sipCalculator, r)
    /\ regionEffectPending' = TRUE
    /\ UNCHANGED sipCalculator
    /\ UnchangedByForm

\* useEffect(() => {...}, [region]): runs after the render, before the next
\* event is handled; its setters cause a render.
regionEffect ==
    /\ regionEffectPending
    /\ sipCalculator' = regionDefaults(sipCalculator, region)
    /\ call' = resultCall(regionDefaults(sipCalculator, region), region)
    /\ regionEffectPending' = FALSE
    /\ UNCHANGED region
    /\ UnchangedByForm

NextForm ==
    \/ setInvestmentMode
    \/ setMonthlyInvestment
    \/ setLumpsumAmount
    \/ setExpectedReturn
    \/ setTenure
    \/ setInflationRate
    \/ handleReset
    \/ regionChanged
    \/ regionEffect

SpecForm == InitForm /\ [][NextForm]_vars

\* ------------------------------------------------- the scenario that is built

\* The parameter record the shown calculator asks the builder for.
ScenarioTenure ==
    IF activeTab = "sip-calculator" THEN sipCalculator.tenure ELSE swpParams.tenure

ScenarioInflation ==
    IF activeTab = "sip-calculator" THEN sipCalculator.inflationRate
    ELSE swpParams.inflationRate

ScenarioReturn ==
    IF activeTab = "sip-calculator" THEN sipCalculator.expectedReturn
    ELSE swpParams.expectedReturn

ScenarioAmounts ==
    IF activeTab = "swp-calculator"
    THEN {swpParams.initialCorpus, swpParams.monthlyWithdrawal}
    ELSE IF sipCalculator.investmentMode = "lumpsum"
         THEN {sipCalculator.lumpsumAmount}
         ELSE {sipCalculator.monthlyInvestment}

ScenarioNegative ==
    \/ \E a \in ScenarioAmounts : a < 0
    \/ ScenarioReturn < 0
    \/ ScenarioTenure < 0
    \/ ScenarioInflation < 0

Called == pc # "idle"

\* ------------------------------------------------------------------- claims

\* C1: a builder call that returns for a scenario of tenure N returns exactly
\* N year records, with year fields 1, 2, ..., N in that order, in every mode
\* and also when a withdrawal scenario ran out of corpus before year N; a
\* valid scenario is never rejected.
C1_ExactlyTenureRecords ==
    /\ pc = "done" =>
          /\ ~ScenarioNegative
          /\ Len(returned.yearlyData) = ScenarioTenure
          /\ \A i \in 1 .. Len(returned.yearlyData) : returned.yearlyData[i].year = i
    /\ pc = "failed" => ScenarioNegative

\* C1 witness: a withdrawal scenario of the longest tenure that ran out in its
\* first year and still returned one record per year.
C1_Witness ==
    /\ pc = "done"
    /\ call.fn = "calculateSWP"
    /\ depletedAt > 0 /\ depletedAt < 12
    /\ ScenarioTenure = MaxTenure
    /\ Len(returned.yearlyData) = MaxTenure

\* C2: in withdrawal mode the running balance after every monthly step, and
\* the valueAtYearEnd of every emitted record, is at least 0.
C2_BalanceNeverNegative ==
    (call.fn = "calculateSWP" /\ pc \in {"loop", "done"}) =>
        /\ balance >= 0
        /\ \A i \in 1 .. Len(records) : records[i].valueAtYearEnd >= 0
        /\ \A i \in 1 .. Len(returned.yearlyData) :
               returned.yearlyData[i].valueAtYearEnd >= 0

\* C2 witness: the month in which a withdrawal larger than the balance clamped
\* it to 0.
C2_Witness ==
    /\ call.fn = "calculateSWP"
    /\ pc = "loop"
    /\ depletedAt = month /\ month > 1
    /\ balance = 0
    /\ call.params.monthlyWithdrawal > 0
    /\ cumulativeCashFlow > 0

\* C3: once the balance has clamped to zero, the balance stays 0, the
\* cumulative cash flow never changes again, and every record of the depletion
\* year and of every later year has valueAtYearEnd = 0 and that frozen
\* cumulativeCashFlow.
C3_FrozenAfterDepletion ==
    /\ [](depletedAt # 0 =>
            /\ balance = 0
            /\ \A i \in 1 .. Len(records) :
                   records[i].year * 12 >= depletedAt =>
                       /\ records[i].valueAtYearEnd = 0
                       /\ records[i].cumulativeCashFlow = cumulativeCashFlow)
    /\ [][depletedAt # 0 => cumulativeCashFlow' = cumulativeCashFlow]_vars

\* C3 witness: a returned schedule that ran out in its first year, with a
\* record for that year and one for a later year.
C3_Witness ==
    /\ pc = "done"
    /\ depletedAt > 0 /\ depletedAt <= 12
    /\ Len(returned.yearlyData) >= 2
    /\ returned.yearlyData[1].cumulativeCashFlow > 0
    /\ call.params.monthlyWithdrawal > 0

\* C4 (as stated): with inflationRate > 0 every record has
\* inflationAdjustedValue strictly less than valueAtYearEnd.
C4_Original ==
    (pc = "done" /\ ScenarioInflation > 0) =>
        \A i \in 1 .. Len(returned.yearlyData) :
            returned.yearlyData[i].inflationAdjustedValue
                < returned.yearlyData[i].valueAtYearEnd

\* C4 (amended): with inflationRate > 0 every record has
\* inflationAdjustedValue <= valueAtYearEnd, strictly less when valueAtYearEnd
\* is positive and equal (both 0) when it is 0.
C4_InflationOrdering ==
    (pc = "done" /\ ScenarioInflation > 0) =>
        \A i \in 1 .. Len(returned.yearlyData) :
            LET rec == returned.yearlyData[i] IN
            /\ rec.inflationAdjustedValue <= rec.valueAtYearEnd
            /\ rec.valueAtYearEnd > 0 => rec.inflationAdjustedValue < rec.valueAtYearEnd
            /\ rec.valueAtYearEnd = 0 => rec.inflationAdjustedValue = 0

\* C4 witness: a schedule under inflation with a year of positive value
\* followed by a year of value 0.
C4_Witness ==
    /\ pc = "done"
    /\ ScenarioInflation > 0
    /\ Len(returned.yearlyData) >= 2
    /\ returned.yearlyData[1].valueAtYearEnd > 0
    /\ returned.yearlyData[1].inflationAdjustedValue < returned.yearlyData[1].valueAtYearEnd
    /\ returned.yearlyData[2].valueAtYearEnd = 0

\* C5: a call with a negative amount, rate or tenure never enters the monthly
\* loop and never returns or emits a record: it fails with InvalidParameter;
\* and no failed call has produced a record.
C5_NegativeRejected ==
    /\ (Called /\ ScenarioNegative) =>
          /\ pc \in {"validate", "failed"}
          /\ month = 0
          /\ records = <<>>
          /\ returned.yearlyData = <<>>
          /\ pc = "failed" => returned.status = "InvalidParameter"
    /\ pc = "failed" => (records = <<>> /\ returned.yearlyData = <<>>)

\* C5 witness: a call whose only fault is a negative tenure has failed.
C5_Witness ==
    /\ pc = "failed"
    /\ returned.status = "InvalidParameter"
    /\ ScenarioTenure < 0
    /\ ScenarioReturn > 0
    /\ \A a \in ScenarioAmounts : a > 0

\* ------------------------------------------------- reading an export back

\* A reader of delimiter-separated text: `sep` ends a field and a line feed
\* ends a row; with `quoting`, a double quote opens or closes a quoted stretch
\* in which neither does, and is not part of the field.
InsideQuotes(text, i) == Cardinality({j \in 1 .. i - 1 : text[j] = Quote}) % 2 = 1

\* The positions at which `sep` cuts the text.
Cuts(text, sep, quoting) ==
    {i \in 1 .. Len(text) : text[i] = sep /\ ~(quoting /\ InsideQuotes(text, i))}

\* The pieces of the text between the cuts, in order.
Pieces(text, cuts) ==
    LET nth(k) == IF k = 0 THEN 0
                  ELSE IF k = Cardinality(cuts) + 1 THEN Len(text) + 1
                  ELSE CHOOSE i \in cuts : Cardinality({j \in cuts : j < i}) = k - 1
    IN [k \in 1 .. Cardinality(cuts) + 1 |-> SubSeq(text, nth(k - 1) + 1, nth(k) - 1)]

Unquoted(cell) == SelectSeq(cell, LAMBDA t : t # Quote)

ReadCSV(text) ==
    LET lines == Pieces(text, Cuts(text, LineFeed, TRUE)) IN
    [k \in 1 .. Len(lines) |->
        LET fields == Pieces(lines[k], Cuts(lines[k], Comma, TRUE))
        IN [c \in 1 .. Len(fields) |-> Unquoted(fields[c])]]

ReadTSV(text) ==
    LET lines == Pieces(text, Cuts(text, LineFeed, FALSE)) IN
    [k \in 1 .. Len(lines) |-> Pieces(lines[k], Cuts(lines[k], Tab, FALSE))]

\* The lines of a text, and the pieces of a line cut at every comma.
Lines(text) == Pieces(text, Cuts(text, LineFeed, FALSE))
CutAtCommas(line) == Pieces(line, Cuts(line, Comma, FALSE))

FileDownloaded == downloaded # NoFile
TextCopied == clipboard # <<>>

CsvTable == ReadCSV(downloaded.content)
TsvTable == ReadTSV(clipboard)

\* The tables exported so far, as a reader gets them back.
ExportedTables ==
    (IF FileDownloaded THEN {CsvTable} ELSE {})
        \cup (IF TextCopied THEN {TsvTable} ELSE {})

SipShown == activeTab = "sip-calculator"

MonthlyHeader == <<"Monthly SIP">>
CumulativeHeader == IF SipShown THEN <<"Cumulative Investment">> ELSE <<"Cumulative Withdrawal">>
ValueHeader == IF SipShown THEN <<"Value at Year-End">> ELSE <<"Corpus at Year-End">>
GainHeader == IF SipShown THEN <<"Total Returns">> ELSE <<"Interest Earned">>
InflationHeader == IF SipShown THEN <<"Inflation Adjusted Value">> ELSE <<"Corpus (Today's Value)">>

HasColumn(table, header) == \E k \in 1 .. Len(table[1]) : table[1][k] = header
Column(table, header) == CHOOSE k \in 1 .. Len(table[1]) : table[1][k] = header

\* The fields of record i that the exports read, under one name for both tables.
ValueOf(i) ==
    IF SipShown THEN yearlyData[i].valueAtYearEnd ELSE yearlyData[i].corpusAtYearEnd
CumulativeOf(i) ==
    IF SipShown THEN yearlyData[i].cumulativeInvestment
    ELSE yearlyData[i].cumulativeWithdrawal
AdjustedOf(i) ==
    IF SipShown THEN yearlyData[i].inflationAdjustedValue
    ELSE yearlyData[i].inflationAdjustedCorpus

RECURSIVE InterestUpTo(_)
InterestUpTo(i) == IF i = 0 THEN 0 ELSE yearlyData[i].interestEarned + InterestUpTo(i - 1)

\* Header, data rows in input order, equal row widths, flag-controlled columns.
HeaderAndRows(table) ==
    /\ Len(table) >= 1 + Len(yearlyData)
    /\ \A i \in 1 .. Len(yearlyData) : table[i + 1][1] = toString(yearlyData[i].year)
    /\ \A k \in 2 .. Len(table) : Len(table[k]) = Len(table[1])
    /\ table[1][1] = <<"Year">>
    /\ HasColumn(table, CumulativeHeader) /\ HasColumn(table, ValueHeader)
    /\ HasColumn(table, GainHeader)
    /\ HasColumn(table, MonthlyHeader) <=> (SipShown /\ showMonthlyAmount)
    /\ HasColumn(table, InflationHeader) <=> showInflation
    /\ Len(table[1]) = 5 + (IF SipShown /\ showMonthlyAmount THEN 1 ELSE 0)
                         + (IF showInflation THEN 1 ELSE 0)

EndsWithTotal(table) ==
    /\ Len(table) = Len(yearlyData) + 2
    /\ table[Len(table)][1] = <<"Total">>

\* C6 (as stated): for every record sequence, the exported table is the header
\* row, one row per record in input order and one trailing "Total" row, all of
\* the header's width, with the optional columns present exactly when flagged.
C6_Original ==
    \A table \in ExportedTables : HeaderAndRows(table) /\ EndsWithTotal(table)

\* C6 (amended): that holds for every non-empty record sequence; for the empty
\* sequence the exported table is the header row alone, with no "Total" row.
C6_TableShape ==
    \A table \in ExportedTables :
        /\ HeaderAndRows(table)
        /\ yearlyData # <<>> => EndsWithTotal(table)
        /\ yearlyData = <<>> => Len(table) = 1

\* C6 witness: a downloaded SIP table of the longest sequence with both
\* optional columns, seven cells wide.
C6_Witness ==
    /\ FileDownloaded /\ SipShown
    /\ Len(yearlyData) = MaxRows
    /\ showMonthlyAmount /\ showInflation
    /\ \E table \in ExportedTables :
          Len(table) = MaxRows + 2 /\ Len(table[Len(table)]) = 7

\* C7: in the "Total" row the cumulative, year-end value and inflation-adjusted
\* cells are those of the last record's row; the gain cell is the last record's
\* totalReturns (SIP) or the sum of interestEarned over all records (SWP).
C7_TotalRow ==
    \A table \in ExportedTables :
        yearlyData # <<>> =>
            LET n == Len(yearlyData)
                total == table[Len(table)]
                lastRow == table[Len(table) - 1]
            IN /\ total[Column(table, CumulativeHeader)] = formatCurrency(CumulativeOf(n), region)
               /\ total[Column(table, CumulativeHeader)] = lastRow[Column(table, CumulativeHeader)]
               /\ total[Column(table, ValueHeader)] = formatCurrency(ValueOf(n), region)
               /\ total[Column(table, ValueHeader)] = lastRow[Column(table, ValueHeader)]
               /\ showInflation =>
                     total[Column(table, InflationHeader)]
                        = lastRow[Column(table, InflationHeader)]
               /\ total[Column(table, GainHeader)] =
                     IF SipShown THEN formatCurrency(yearlyData[n].totalReturns, region)
                     ELSE formatCurrency(InterestUpTo(n), region)

\* C7 witness: a downloaded SWP table of two or more records (the interest
\* total differs from the last year's interest) with the inflation column.
C7_Witness ==
    /\ FileDownloaded /\ ~SipShown
    /\ Len(yearlyData) >= 2
    /\ showInflation
    /\ AdjustedOf(Len(yearlyData)) # Undefined
    /\ \E table \in ExportedTables :
          table[Len(table)][Column(table, GainHeader)]
              # table[Len(table) - 1][Column(table, GainHeader)]

\* C8: for the same records, region and flags, the tab-separated text on the
\* clipboard reads back as the same table as the downloaded comma-separated
\* file: same headers, same rows in the same order, same cells.
C8_SameTable ==
    (FileDownloaded /\ TextCopied) => TsvTable = CsvTable

\* C8 witness: both exports made of a sequence of two or more records whose
\* cells hold grouping commas.
C8_Witness ==
    /\ FileDownloaded /\ TextCopied
    /\ Len(yearlyData) >= 2
    /\ \E table \in {TsvTable} :
          /\ Len(table) = Len(yearlyData) + 2
          /\ \E k \in 1 .. Len(table[2]) : \E j \in 1 .. Len(table[2][k]) :
                table[2][k][j] = Comma

\* C9: with the inflation column enabled, the inflation-adjusted cell of every
\* data row and of the Total row shows the record's own inflation-adjusted
\* value whenever the field is present, 0 included, and the nominal year-end
\* value only when the field is absent.
C9_OwnAdjustedValue ==
    \A table \in ExportedTables :
        showInflation =>
            LET shown(i) == IF AdjustedOf(i) # Undefined THEN AdjustedOf(i)[1] ELSE ValueOf(i)
            IN /\ \A i \in 1 .. Len(yearlyData) :
                      table[i + 1][Column(table, InflationHeader)]
                          = formatCurrency(shown(i), region)
               /\ yearlyData # <<>> =>
                      table[Len(table)][Column(table, InflationHeader)]
                          = formatCurrency(shown(Len(yearlyData)), region)

\* A locale currency string: an optional sign, the currency symbol, then
\* digits and grouping commas, starting and ending with a digit.
DigitTokens == {"0", "1", "2", "3", "4", "5", "6", "7", "8", "9"}

IsCurrencyString(cell) ==
    LET body == IF cell # <<>> /\ cell[1] = "-" THEN Tail(cell) ELSE cell IN
    /\ Len(body) >= 2
    /\ body[1] \in {"Rs", "$"}
    /\ \A j \in 2 .. Len(body) : body[j] \in DigitTokens \cup {Comma}
    /\ body[2] \in DigitTokens /\ body[Len(body)] \in DigitTokens

\* Every field of line k of the file is written between double quotes, and
\* reads back whole, at the header's width.
LineIsQuoted(table, lines, k) ==
    /\ lines[k] = join(QuotedCells(table[k]), Comma)
    /\ Len(table[k]) = Len(table[1])
    /\ \A c \in 1 .. Len(table[k]) :
          \A j \in 1 .. Len(table[k][c]) : table[k][c][j] # Quote

\* The file as its reader and its raw lines see it.
DownloadedFile ==
    IF FileDownloaded
    THEN {[table |-> CsvTable, lines |-> Lines(downloaded.content)]}
    ELSE {}

\* C10 (as stated): every field of every row after the header is a locale
\* currency string enclosed in double quotes.
C10_Original ==
    \A file \in DownloadedFile :
        \A k \in 2 .. Len(file.table) :
            /\ LineIsQuoted(file.table, file.lines, k)
            /\ \A c \in 1 .. Len(file.table[k]) : IsCurrencyString(file.table[k][c])

\* C10 (amended): every field of every row after the header is enclosed in
\* double quotes, so that a comma inside it never splits it; the first field
\* of a row is the year number or "Total", the Total row holds "-" in the
\* columns it does not sum, and every other field is a locale currency string.
C10_QuotedFields ==
    \A file \in DownloadedFile :
        /\ Len(file.lines) = Len(file.table)
        /\ \A k \in 2 .. Len(file.table) :
            /\ LineIsQuoted(file.table, file.lines, k)
            /\ \/ file.table[k][1] = <<"Total">>
               \/ /\ k - 1 <= Len(yearlyData)
                  /\ file.table[k][1] = toString(yearlyData[k - 1].year)
            /\ \A c \in 2 .. Len(file.table[k]) :
                  \/ IsCurrencyString(file.table[k][c])
                  \/ /\ file.table[k][1] = <<"Total">>
                     /\ file.table[k][c] = <<"-">>
                     /\ file.table[1][c] \notin {CumulativeHeader, ValueHeader, GainHeader,
                                                 InflationHeader}

\* C10 witness: a downloaded file with a data line that holds more commas than
\* field separators, read back at the header's width.
C10_Witness ==
    \E file \in DownloadedFile :
        /\ Len(yearlyData) >= 1
        /\ Len(CutAtCommas(file.lines[2])) > Len(file.table[1])
        /\ Len(file.table[2]) = Len(file.table[1])

\* The parameters the engine must be called with: the current mode's amount
\* and the current return, tenure, region and inflation rate.
EngineCalledWithCurrent ==
    /\ call.params.expectedReturn = sipCalculator.expectedReturn
    /\ call.params.tenure = sipCalculator.tenure
    /\ call.params.region = region
    /\ call.inflationRate = sipCalculator.inflationRate
    /\ IF sipCalculator.investmentMode = "lumpsum"
       THEN /\ call.fn = "calculateLumpsum"
            /\ call.params.principalAmount = sipCalculator.lumpsumAmount
       ELSE /\ call.fn = "calculateSIP"
            /\ call.params.monthlyInvestment = sipCalculator.monthlyInvestment

\* C11: a change of region leaves the form's state as it is until its effect
\* runs, which is before anything else; the effect sets monthlyInvestment,
\* lumpsumAmount and inflationRate to the new region's defaults and leaves
\* expectedReturn, tenure and investmentMode unchanged; and after any sequence
\* of edits, mode toggles, resets and region changes the engine is called with
\* the current mode's amount and the current expectedReturn, tenure, region
\* and inflationRate.
C11_RegionDefaultsAndEngineArgs ==
    /\ [][region' # region =>
            /\ sipCalculator' = sipCalculator
            /\ regionEffectPending']_vars
    /\ [][regionEffectPending =>
            /\ ~regionEffectPending'
            /\ region' = region
            /\ sipCalculator'.monthlyInvestment = DEFAULT_VALUES.monthlyInvestment[region]
            /\ sipCalculator'.lumpsumAmount = DEFAULT_VALUES.lumpsumAmount[region]
            /\ sipCalculator'.inflationRate = DEFAULT_VALUES.inflationRate[region]
            /\ sipCalculator'.expectedReturn = sipCalculator.expectedReturn
            /\ sipCalculator'.tenure = sipCalculator.tenure
            /\ sipCalculator'.investmentMode = sipCalculator.investmentMode]_vars
    /\ []EngineCalledWithCurrent

\* C11 witness: in lump-sum mode with an edited return and tenure, the region
\* was changed from the one the form mounted in and the effect has run: the
\* amounts and the inflation rate are the new region's defaults, the edits are
\* kept, and the engine was called with the lump sum.
C11_Witness ==
    /\ region = "USD" /\ ~regionEffectPending
    /\ sipCalculator.investmentMode = "lumpsum"
    /\ sipCalculator.expectedReturn # DEFAULT_VALUES.expectedReturn
    /\ sipCalculator.tenure # DEFAULT_VALUES.tenure
    /\ sipCalculator.monthlyInvestment = DEFAULT_VALUES.monthlyInvestment["USD"]
    /\ sipCalculator.lumpsumAmount = DEFAULT_VALUES.lumpsumAmount["USD"]
    /\ sipCalculator.inflationRate = DEFAULT_VALUES.inflationRate["USD"]
    /\ call.fn = "calculateLumpsum"
    /\ call.params.principalAmount = DEFAULT_VALUES.lumpsumAmount["USD"]
    /\ call.params.region = "USD"

====
